---- MODULE Spec2Model ----
(***************************************************************************)
(* Mood analytics of the mood tracker backend: the list of mood rows that  *)
(* database.get_user_moods returns, and the report operations of           *)
(* analytics.MoodAnalytics and features.analytics.AnalyticsService applied *)
(* to it.                                                                  *)
(*                                                                         *)
(* Representation.                                                         *)
(*   - A date is its proleptic Gregorian ordinal (Python date.toordinal).  *)
(*   - A timestamp is <<>> (None) or <<[day, hour, minute]>> (a naive UTC  *)
(*     datetime: ordinal of its date, hour, minute).                       *)
(*   - A number rounded to k decimals is the integer number * 10^k.        *)
(*   - A chart slot is None (JSON null) or Num(v).                         *)
(*   - A call returns Ok(value) or Raise(exception name).                  *)
(***************************************************************************)
EXTENDS Integers, Sequences, FiniteSets

VARIABLES moods, response

vars == <<moods, response>>

-----------------------------------------------------------------------------
(* Bounds *)

MaxMoods == 4

MaxHourlyMoods == 3

-----------------------------------------------------------------------------
(* Values *)

None == <<>>

Num(v) == <<v>>

Ok(v) == [raised |-> "", value |-> v]

Raise(e) == [raised |-> e, value |-> <<>>]

MOOD_VALUES ==
    [m \in {"very bad", "bad", "slightly bad", "neutral",
            "slightly well", "well", "very well"} |->
        CASE m = "very bad" -> 1
          [] m = "bad" -> 2
          [] m = "slightly bad" -> 3
          [] m = "neutral" -> 4
          [] m = "slightly well" -> 5
          [] m = "well" -> 6
          [] m = "very well" -> 7]

-----------------------------------------------------------------------------
(* Calendar arithmetic of datetime.date *)

YearRange == 2022 .. 2026

IsLeap(y) == (y % 4 = 0) /\ ((y % 100 # 0) \/ (y % 400 = 0))

DaysInMonth(y, m) ==
    IF m = 2 THEN (IF IsLeap(y) THEN 29 ELSE 28)
    ELSE IF m \in {4, 6, 9, 11} THEN 30 ELSE 31

DaysBeforeYear(y) ==
    (y - 1) * 365 + ((y - 1) \div 4) - ((y - 1) \div 100) + ((y - 1) \div 400)

RECURSIVE DaysBeforeMonth(_, _)
DaysBeforeMonth(y, m) ==
    IF m = 1 THEN 0 ELSE DaysBeforeMonth(y, m - 1) + DaysInMonth(y, m - 1)

\* date(y, m, d).toordinal()
ToOrdinal(y, m, d) == DaysBeforeYear(y) + DaysBeforeMonth(y, m) + d

\* The dates of YearRange, and date.year, date.month, date.day of each
Ordinals == ToOrdinal(2022, 1, 1) .. ToOrdinal(2026, 12, 31)

YearTable ==
    [o \in Ordinals |->
        CHOOSE y \in YearRange : DaysBeforeYear(y) < o /\ o <= DaysBeforeYear(y + 1)]

MonthTable ==
    [o \in Ordinals |->
        LET y == YearTable[o]
            n == o - DaysBeforeYear(y)
        IN  CHOOSE m \in 1 .. 12 :
                DaysBeforeMonth(y, m) < n /\ n <= DaysBeforeMonth(y, m) + DaysInMonth(y, m)]

YearOf(o) == YearTable[o]

MonthOf(o) == MonthTable[o]

DayOf(o) == o - DaysBeforeYear(YearOf(o)) - DaysBeforeMonth(YearOf(o), MonthOf(o))

\* date.weekday(): 0 = Monday .. 6 = Sunday
Weekday(o) == (o + 6) % 7

\* datetime - timedelta(hours=h), carried through the minutes since ordinal 0
MinusHours(t, h) ==
    LET total == (t.day * 24 + t.hour - h) * 60 + t.minute
    IN  [day |-> total \div 1440,
         hour |-> (total % 1440) \div 60,
         minute |-> total % 60]

\* ChileTimezoneService.convert_to_chile_time, and the inline copies of it
convert_to_chile_time(t) == MinusHours(t, 3)

-----------------------------------------------------------------------------
(* Rounding: Python round(num/den, digits), as an integer scaled by        *)
(* 10^digits.  num/den is a quotient of small integers; a tie is an exact  *)
(* binary fraction there, which round() sends to the even neighbour.       *)

Pow10(k) == IF k = 0 THEN 1 ELSE IF k = 1 THEN 10 ELSE 100

Round(num, den, digits) ==
    LET n == num * Pow10(digits)
        q == n \div den
        r == n % den
    IN  IF 2 * r < den THEN q
        ELSE IF 2 * r > den THEN q + 1
        ELSE IF q % 2 = 0 THEN q ELSE q + 1

\* sum(values)
RECURSIVE SumSeq(_)
SumSeq(s) == IF s = <<>> THEN 0 ELSE Head(s) + SumSeq(Tail(s))

-----------------------------------------------------------------------------
(* Rows of the moods table *)

\* Minutes since ordinal 0 of a datetime: the order of two datetimes
Instant(t) == (t.day * 24 + t.hour) * 60 + t.minute

\* ORDER BY date DESC, timestamp DESC: row a may stand before row b (NULL
\* sorts first in a descending order)
RowBefore(a, b) ==
    IF a.date # b.date THEN a.date > b.date
    ELSE IF a.timestamp = None THEN TRUE
    ELSE IF b.timestamp = None THEN FALSE
    ELSE Instant(a.timestamp[1]) >= Instant(b.timestamp[1])

\* What get_user_moods returns: the rows in that order
get_user_moods(rows) ==
    \A k \in 1 .. (Len(rows) - 1) : RowBefore(rows[k], rows[k + 1])

InsertAt(s, i, e) == SubSeq(s, 1, i - 1) \o <<e>> \o SubSeq(s, i, Len(s))

-----------------------------------------------------------------------------
(* analytics.MoodAnalytics: each operation applied to self.moods = ms      *)

\* MOOD_VALUES[mood_entry['mood']] raises KeyError on a label that is no key
Known(e) == e.mood \in DOMAIN MOOD_VALUES

ValueOf(e) == MOOD_VALUES[e.mood]

\* [MOOD_VALUES[e['mood']] for e in rows]
MoodValues(rows) == [i \in 1 .. Len(rows) |-> ValueOf(rows[i])]

AllKnown(rows) == \A i \in 1 .. Len(rows) : Known(rows[i])

\* The loop of calculate_streak over reversed(self.moods), at index i
RECURSIVE StreakLoop(_, _, _)
StreakLoop(ms, i, streak) ==
    IF i = 0 THEN Ok(streak)
    ELSE IF ~Known(ms[i]) THEN Raise("KeyError")
    ELSE IF ValueOf(ms[i]) >= 5 THEN StreakLoop(ms, i - 1, streak + 1)
    ELSE Ok(streak)

\* Mutant: the count starts at 1
calculate_streak_from_one(ms) == StreakLoop(ms, Len(ms), 1)

calculate_streak(ms) == StreakLoop(ms, Len(ms), 0)

\* The keys of daily_moods, in the order the loop inserts them
RECURSIVE DateKeys(_, _)
DateKeys(ms, seen) ==
    IF ms = <<>> THEN <<>>
    ELSE IF Head(ms).date \in seen THEN DateKeys(Tail(ms), seen)
    ELSE <<Head(ms).date>> \o DateKeys(Tail(ms), seen \cup {Head(ms).date})

\* A quotient n/d kept exact
Frac(n, d) == [n |-> n, d |-> d]

FracAdd(a, b) == Frac(a.n * b.d + b.n * a.d, a.d * b.d)

RECURSIVE FracSum(_)
FracSum(fs) == IF fs = <<>> THEN Frac(0, 1) ELSE FracAdd(Head(fs), FracSum(Tail(fs)))

\* Mutant: a day is good only above 5
IsGoodDayStrict(f) == f.n > 5 * f.d

\* daily_avg >= 5 and daily_avg <= 3
IsGoodDay(f) == f.n >= 5 * f.d

IsBadDay(f) == f.n <= 3 * f.d

\* round(sum(xs) / len(xs), 2) if xs else 0
MeanOrZero(fs) ==
    IF fs = <<>> THEN 0
    ELSE Round(FracSum(fs).n, FracSum(fs).d * Len(fs), 2)

\* Mutant: every entry is averaged on its own, which makes 'daily' the flat mean
DailyAveragesFlat(ms) == [k \in 1 .. Len(ms) |-> Frac(ValueOf(ms[k]), 1)]

\* daily_averages of calculate_averages: sum(mood_list) / len(mood_list) per key
DailyAverages(ms) ==
    LET keys == DateKeys(ms, {})
    IN  [k \in 1 .. Len(keys) |->
            LET OnDate(e) == e.date = keys[k]
                mood_list == MoodValues(SelectSeq(ms, OnDate))
            IN  Frac(SumSeq(mood_list), Len(mood_list))]

TotalEntries(daily_averages) == Len(daily_averages)

calculate_averages(ms) ==
    IF ms = <<>>
    THEN Ok([daily |-> 0, good_days |-> 0, bad_days |-> 0, total_entries |-> 0])
    ELSE IF ~AllKnown(ms) THEN Raise("KeyError")
    ELSE LET daily_averages == DailyAverages(ms)
         IN  Ok([daily |-> MeanOrZero(daily_averages),
                 good_days |-> MeanOrZero(SelectSeq(daily_averages, IsGoodDay)),
                 bad_days |-> MeanOrZero(SelectSeq(daily_averages, IsBadDay)),
                 total_entries |-> TotalEntries(daily_averages)])

\* str(date): 'YYYY-MM-DD', as its three fields
DateStr(o) == <<YearOf(o), MonthOf(o), DayOf(o)>>

\* datetime.strptime(s, '%Y-%m-%d') accepts s
IsDateStr(s) ==
    /\ s[1] \in YearRange
    /\ s[2] \in 1 .. 12
    /\ s[3] \in 1 .. DaysInMonth(s[1], s[2])

\* datetime.strptime(s, '%Y-%m-%d').date()
ParseDate(s) == ToOrdinal(s[1], s[2], s[3])

\* round(sum(vs) / len(vs), digits) of a non-empty bucket
BucketAverage(vs, digits) == Round(SumSeq(vs), Len(vs), digits)

get_weekly_patterns(ms) ==
    IF ~AllKnown(ms) THEN Raise("KeyError")
    ELSE Ok([data |->
            [d \in 1 .. 7 |->
                LET OnDay(e) == Weekday(ParseDate(DateStr(e.date))) = d - 1
                    vs == MoodValues(SelectSeq(ms, OnDay))
                IN  IF vs # <<>> THEN Num(BucketAverage(vs, 2)) ELSE Num(0)]])

\* Mutant: an empty weekday is reported as 0
EmptyWeekdaySlotZero == Num(0)

\* The empty slot of get_weekly_patterns_for_period
EmptyWeekdaySlot == None

get_weekly_patterns_for_period(ms, start_date, end_date) ==
    LET InPeriod(e) == start_date <= e.date /\ e.date <= end_date
        hit == SelectSeq(ms, InPeriod)
    IN  IF ~AllKnown(hit) THEN Raise("KeyError")
        ELSE LET daily_moods == [d \in 1 .. 7 |->
                     LET OnDay(e) == Weekday(e.date) = d - 1
                     IN  MoodValues(SelectSeq(hit, OnDay))]
             IN  Ok([data |-> [d \in 1 .. 7 |->
                         IF daily_moods[d] # <<>>
                         THEN Num(BucketAverage(daily_moods[d], 2))
                         ELSE EmptyWeekdaySlot],
                     counts |-> [d \in 1 .. 7 |-> Len(daily_moods[d])],
                     start_date |-> start_date,
                     end_date |-> end_date])

\* The while loop of get_weekly_trends_for_month: the lists weekly_moods[1],
\* weekly_moods[2], ... and whether a lookup raised KeyError
RECURSIVE WeekLoop(_, _, _, _, _, _)
WeekLoop(ms, year, month, last_day, current_week_start, week_num) ==
    IF ~(MonthOf(current_week_start) <= month /\ YearOf(current_week_start) = year)
    THEN [raised |-> FALSE, weeks |-> <<>>]
    ELSE LET plus6 == current_week_start + 6
             week_end == IF plus6 < last_day THEN plus6 ELSE last_day
             InWeek(e) == current_week_start <= e.date /\ e.date <= week_end
             hit == SelectSeq(ms, InWeek)
         IN  IF ~AllKnown(hit) THEN [raised |-> TRUE, weeks |-> <<>>]
             ELSE IF week_num + 1 > 6
             THEN [raised |-> FALSE, weeks |-> <<MoodValues(hit)>>]
             ELSE LET rest == WeekLoop(ms, year, month, last_day,
                                       current_week_start + 7, week_num + 1)
                  IN  [raised |-> rest.raised,
                       weeks |-> <<MoodValues(hit)>> \o rest.weeks]

\* Mutant: a week without observations is a null slot
get_weekly_trends_for_month_with_gaps(ms, year, month) ==
    LET first_day == ToOrdinal(year, month, 1)
        last_day == ToOrdinal(year, month, DaysInMonth(year, month))
        first_monday == first_day + ((7 - Weekday(first_day)) % 7)
        loop == WeekLoop(ms, year, month, last_day, first_monday, 1)
        weekly_moods == loop.weeks
    IN  IF loop.raised THEN Raise("KeyError")
        ELSE Ok([labels |-> [w \in 1 .. Len(weekly_moods) |-> w],
                 data |-> [w \in 1 .. Len(weekly_moods) |->
                     IF weekly_moods[w] # <<>>
                     THEN Num(BucketAverage(weekly_moods[w], 1))
                     ELSE None],
                 year |-> year,
                 month |-> month])

get_weekly_trends_for_month(ms, year, month) ==
    LET first_day == ToOrdinal(year, month, 1)
        last_day == ToOrdinal(year, month, DaysInMonth(year, month))
        first_monday == first_day + ((7 - Weekday(first_day)) % 7)
        loop == WeekLoop(ms, year, month, last_day, first_monday, 1)
        weekly_moods == loop.weeks
    IN  IF loop.raised THEN Raise("KeyError")
        ELSE Ok([labels |-> [w \in 1 .. Len(weekly_moods) |-> w],
                 data |-> [w \in 1 .. Len(weekly_moods) |->
                     IF weekly_moods[w] # <<>>
                     THEN Num(BucketAverage(weekly_moods[w], 1))
                     ELSE Num(0)],
                 year |-> year,
                 month |-> month])

\* The empty slot of get_monthly_trends_for_year
EmptyMonthSlot == Num(0)

\* Mutant: the year of the entry is not compared
InAnyYear(e, year) == TRUE

\* mood_date.year == year
InYear(e, year) == YearOf(e.date) = year

get_monthly_trends_for_year(ms, year) ==
    LET InTargetYear(e) == InYear(e, year)
        hit == SelectSeq(ms, InTargetYear)
    IN  IF ~AllKnown(hit) THEN Raise("KeyError")
        ELSE Ok([data |-> [m \in 1 .. 12 |->
                     LET InMonth(e) == MonthOf(e.date) = m
                         vs == MoodValues(SelectSeq(hit, InMonth))
                     IN  IF vs # <<>> THEN Num(BucketAverage(vs, 1))
                         ELSE EmptyMonthSlot],
                 year |-> year])

\* if not timestamp: continue
HasTimestamp(e) == e.timestamp # None

\* A timestamp given as text is <<"str", text>>; a datetime is <<t>>
\* isinstance(timestamp, str)
IsStr(timestamp) == Len(timestamp) = 2

\* The exception of the loop of get_daily_patterns and get_hourly_averages,
\* "" when it completes: for each stamped entry MOOD_VALUES[...] comes
\* first, then datetime.fromisoformat, which raises ValueError on a text
\* that is no ISO timestamp (the only texts here)
RECURSIVE LoopError(_)
LoopError(stamped) ==
    IF stamped = <<>> THEN ""
    ELSE IF ~Known(Head(stamped)) THEN "KeyError"
    ELSE IF IsStr(Head(stamped).timestamp) THEN "ValueError"
    ELSE LoopError(Tail(stamped))

\* Mutant: the hour is taken from the UTC timestamp
UtcHour(e) == e.timestamp[1].hour

\* chile_time.hour of a row's timestamp
ChileHour(e) == convert_to_chile_time(e.timestamp[1]).hour

\* hourly_moods / hourly_totals: the values of each hour 0..23, at index hour + 1
HourlyBuckets(stamped) ==
    [h \in 1 .. 24 |->
        LET AtHour(e) == ChileHour(e) = h - 1
        IN  MoodValues(SelectSeq(stamped, AtHour))]

\* Mutant: an hour without entries is reported as 0
HourSlotZero(vs) == IF vs # <<>> THEN Num(BucketAverage(vs, 2)) ELSE Num(0)

\* The slot of an hour of get_daily_patterns and get_hourly_averages
HourSlot(vs) == IF vs # <<>> THEN Num(BucketAverage(vs, 2)) ELSE None

\* labels of the 24-slot reports: '00:00' .. '23:00', as the hours
HourLabels == [h \in 1 .. 24 |-> h - 1]

get_daily_patterns(ms) ==
    LET stamped == SelectSeq(ms, HasTimestamp)
    IN  IF LoopError(stamped) # "" THEN Raise(LoopError(stamped))
        ELSE LET hourly_moods == HourlyBuckets(stamped)
             IN  Ok([labels |-> HourLabels,
                     data |-> [h \in 1 .. 24 |-> HourSlot(hourly_moods[h])],
                     period |-> <<"Average Mood by Hour (All Days)">>])

\* earliest_date / latest_date of get_hourly_averages, as '%Y-%m-%d'
DateRange(stamped) ==
    IF stamped = <<>> THEN None
    ELSE LET ts == {stamped[i].timestamp[1] : i \in 1 .. Len(stamped)}
             earliest == CHOOSE t \in ts : \A u \in ts : Instant(t) <= Instant(u)
             latest == CHOOSE t \in ts : \A u \in ts : Instant(t) >= Instant(u)
         IN  <<[start |-> DateStr(earliest.day), end |-> DateStr(latest.day)]>>

get_hourly_averages(ms) ==
    LET stamped == SelectSeq(ms, HasTimestamp)
    IN  IF LoopError(stamped) # "" THEN Raise(LoopError(stamped))
        ELSE LET hourly_totals == HourlyBuckets(stamped)
             IN  Ok([data |-> [h \in 1 .. 24 |-> HourSlot(hourly_totals[h])],
                     counts |-> [h \in 1 .. 24 |-> Len(hourly_totals[h])],
                     date_range |-> DateRange(stamped)])

\* filtered_moods.sort(key=lambda x: x['chile_timestamp']): a stable sort
RECURSIVE InsertSorted(_, _)
InsertSorted(sorted, p) ==
    IF sorted = <<>> THEN <<p>>
    ELSE IF Instant(p.chile_timestamp) < Instant(Head(sorted).chile_timestamp)
         THEN <<p>> \o sorted
         ELSE <<Head(sorted)>> \o InsertSorted(Tail(sorted), p)

RECURSIVE SortByChileTimestamp(_)
SortByChileTimestamp(ps) ==
    IF ps = <<>> THEN <<>>
    ELSE InsertSorted(SortByChileTimestamp(SubSeq(ps, 1, Len(ps) - 1)), ps[Len(ps)])

\* Mutant: the date is taken from the UTC timestamp
OnUtcDate(e, target_date) == e.timestamp[1].day = target_date

\* chile_time.date() == target_date
OnChileDate(e, target_date) == convert_to_chile_time(e.timestamp[1]).day = target_date

\* Mutant: the time fields are written into the entry of self.moods itself
WithTimeInPlace(mood_entry, chile_time) ==
    [entry |-> [mood |-> mood_entry.mood, date |-> mood_entry.date,
                timestamp |-> mood_entry.timestamp, chile_timestamp |-> chile_time],
     with_time |-> [mood |-> mood_entry.mood, chile_timestamp |-> chile_time]]

\* mood_entry.copy() and the assignments to the copy: the entry of
\* self.moods afterwards, and the copy that carries the time fields
WithTime(mood_entry, chile_time) ==
    [entry |-> mood_entry,
     with_time |-> [mood |-> mood_entry.mood, chile_timestamp |-> chile_time]]

get_daily_patterns_for_date(ms, selected_date) ==
    IF ~IsDateStr(selected_date)
    THEN Ok([labels |-> <<>>, data |-> <<>>,
             period |-> <<"Invalid date", selected_date>>])
    ELSE IF \E i \in 1 .. Len(ms) : HasTimestamp(ms[i]) /\ IsStr(ms[i].timestamp)
    THEN Raise("ValueError")
    ELSE LET target_date == ParseDate(selected_date)
             OnTarget(e) == HasTimestamp(e) /\ OnChileDate(e, target_date)
             hit == SelectSeq(ms, OnTarget)
             filtered_moods == SortByChileTimestamp(
                 [i \in 1 .. Len(hit) |->
                     WithTime(hit[i], convert_to_chile_time(hit[i].timestamp[1])).with_time])
         IN  IF filtered_moods = <<>>
             THEN Ok([labels |-> HourLabels, data |-> [h \in 1 .. 24 |-> None],
                      mood_points |-> <<>>,
                      period |-> <<"Daily Patterns (No data)", selected_date>>])
             ELSE IF ~AllKnown(filtered_moods) THEN Raise("KeyError")
             ELSE Ok([labels |-> HourLabels, data |-> [h \in 1 .. 24 |-> None],
                      mood_points |-> [i \in 1 .. Len(filtered_moods) |->
                          LET p == filtered_moods[i]
                          IN  [x60 |-> p.chile_timestamp.hour * 60 + p.chile_timestamp.minute,
                               y |-> ValueOf(p),
                               mood |-> p.mood,
                               timestamp |-> p.chile_timestamp]],
                      period |-> <<"Daily Patterns", selected_date>>,
                      total_entries |-> Len(filtered_moods)])

\* self.moods after get_daily_patterns_for_date: the loop reaches entry i
\* when no earlier timestamp made fromisoformat raise, and the entries of
\* the selected date are the ones copied; filtered_moods, the list that is
\* sorted, is a list of its own
MoodsAfterDailyPatternsForDate(ms, selected_date) ==
    IF ~IsDateStr(selected_date) THEN ms
    ELSE [i \in 1 .. Len(ms) |->
            IF /\ \A j \in 1 .. i : ~(HasTimestamp(ms[j]) /\ IsStr(ms[j].timestamp))
               /\ HasTimestamp(ms[i])
            THEN IF OnChileDate(ms[i], ParseDate(selected_date))
                 THEN WithTime(ms[i], convert_to_chile_time(ms[i].timestamp[1])).entry
                 ELSE ms[i]
            ELSE ms[i]]

-----------------------------------------------------------------------------
(* MoodAnalytics.get_summary *)

\* weekly['labels']
WeekdayNames ==
    <<"Monday", "Tuesday", "Wednesday", "Thursday", "Friday", "Saturday", "Sunday">>

\* The best-day loop: the first day whose average exceeds every earlier one
RECURSIVE BestDayLoop(_, _, _, _)
BestDayLoop(data, i, best_avg, best_day) ==
    IF i > Len(data) THEN best_day
    ELSE IF data[i][1] > best_avg
         THEN BestDayLoop(data, i + 1, data[i][1], WeekdayNames[i])
         ELSE BestDayLoop(data, i + 1, best_avg, best_day)

get_summary(ms) ==
    LET averages == calculate_averages(ms)
        streak == calculate_streak(ms)
        weekly == get_weekly_patterns(ms)
    IN  IF averages.raised # "" THEN averages
        ELSE IF streak.raised # "" THEN streak
        ELSE IF weekly.raised # "" THEN weekly
        ELSE Ok([current_streak |-> streak.value,
                 daily_average |-> averages.value.daily,
                 good_days_average |-> averages.value.good_days,
                 bad_days_average |-> averages.value.bad_days,
                 total_entries |-> averages.value.total_entries,
                 best_day |-> BestDayLoop(weekly.value.data, 1, 0, "N/A"),
                 weekly_patterns |-> weekly.value])

-----------------------------------------------------------------------------
(* shared.models and features.analytics.service                            *)

\* Mutant: a string that is no label has the value 0
get_value_or_zero(mood_str) ==
    IF mood_str \in DOMAIN MOOD_VALUES THEN MOOD_VALUES[mood_str] ELSE 0

\* MoodType.get_value: mood_values.get(mood_str, 4)
get_value(mood_str) ==
    IF mood_str \in DOMAIN MOOD_VALUES THEN MOOD_VALUES[mood_str] ELSE 4

\* MoodEntry.hour
EntryHour(e) == e.timestamp[1].hour

\* MoodRepository.find_by_user_and_date_range
find_by_user_and_date_range(rows, start_date, end_date) ==
    LET InRange(e) == e.date >= start_date /\ e.date <= end_date
    IN  SelectSeq(rows, InRange)

\* AnalyticsService.get_hourly_patterns; hourly_averages is a dict keyed by
\* the hours that hold entries
get_hourly_patterns(rows, today, days) ==
    LET ms == find_by_user_and_date_range(rows, today - days, today)
    IN  IF \E i \in 1 .. Len(ms) : ~HasTimestamp(ms[i]) THEN Raise("AttributeError")
        ELSE LET hours == {EntryHour(ms[i]) : i \in 1 .. Len(ms)}
             IN  Ok([hourly_averages |-> [h \in hours |->
                         LET AtHour(e) == EntryHour(e) = h
                             sel == SelectSeq(ms, AtHour)
                             vs == [i \in 1 .. Len(sel) |-> get_value(sel[i].mood)]
                         IN  BucketAverage(vs, 2)],
                     period_days |-> days])

-----------------------------------------------------------------------------
(* FourWeekComparisonService *)

\* reversed(...)
RECURSIVE Reverse(_)
Reverse(s) == IF s = <<>> THEN <<>> ELSE Append(Reverse(Tail(s)), Head(s))

\* SELECT date, mood FROM moods WHERE date >= CURRENT_DATE - INTERVAL
\* '28 days' ORDER BY date: the stored rows, kept newest first, from the
\* oldest to the newest
FetchLastFourWeeks(rows, today) ==
    LET Recent(e) == e.date >= today - 28
    IN  Reverse(SelectSeq(rows, Recent))

\* MOOD_VALUES.get(row['mood'].lower(), 4); the labels here are lower-case
MoodValueOrNeutral(mood) ==
    IF mood \in DOMAIN MOOD_VALUES THEN MOOD_VALUES[mood] ELSE 4

\* week_data after the rows of the week: a later row of a weekday
\* overwrites an earlier one
RECURSIVE WeekData(_, _)
WeekData(in_week, week_data) ==
    IF in_week = <<>> THEN week_data
    ELSE WeekData(Tail(in_week),
                  [week_data EXCEPT ![Weekday(Head(in_week).date) + 1] =
                       Num(MoodValueOrNeutral(Head(in_week).mood))])

\* One pass of the week_offset loop; the label is the pair of its dates
\* and the average is in tenths
GroupWeek(rows, today, week_offset) ==
    LET days_back == Weekday(today) + 7 * week_offset
        week_start == today - days_back
        week_end == week_start + 6
        InWeek(e) == week_start <= e.date /\ e.date <= week_end
        in_week == SelectSeq(rows, InWeek)
        week_entries == [k \in 1 .. Len(in_week) |-> MoodValueOrNeutral(in_week[k].mood)]
    IN  [label |-> <<week_start, week_end>>,
         data |-> WeekData(in_week, [d \in 1 .. 7 |-> None]),
         average |-> IF week_entries # <<>>
                     THEN Num(Round(SumSeq(week_entries), Len(week_entries), 1))
                     ELSE None,
         entries_count |-> Len(week_entries)]

\* _group_by_weeks, with today for datetime.now().date()
group_by_weeks(rows, today) ==
    Reverse([w \in 1 .. 4 |-> GroupWeek(rows, today, w - 1)])

get_four_week_comparison(rows, today) ==
    Ok([success |-> TRUE,
        weeks |-> group_by_weeks(FetchLastFourWeeks(rows, today), today)])

-----------------------------------------------------------------------------
(* Tag correlations: MoodAnalyzer.get_trigger_correlations and              *)
(* InsightsService.get_tag_correlations.  A row of these reports carries    *)
(* the set of tag names linked to it in mood_tags.                          *)

\* The tags linked to some of the rows
TagsOf(rows) == UNION {rows[i].tags : i \in 1 .. Len(rows)}

\* The rows linked to a tag
Tagged(rows, tag) ==
    LET HasTag(e) == tag \in e.tags
    IN  SelectSeq(rows, HasTag)

\* All the orders a sort may leave the entries in: no entry precedes one
\* that sorts before it.  The order of entries with equal keys is that of
\* the rows fetched, which the queries leave open.
\* key[e] is the pair an entry is sorted by, the larger first.
KeyBefore(x, y) == x[1] > y[1] \/ (x[1] = y[1] /\ x[2] > y[2])

Orderings(entries, key) ==
    {s \in [1 .. Cardinality(entries) -> entries] :
        /\ \A i, j \in DOMAIN s : i # j => s[i] # s[j]
        /\ \A i, j \in DOMAIN s : i < j => ~KeyBefore(key[s[j]], key[s[i]])}

\* MoodAnalyzer._mood_to_numeric: mood_map.get(mood.lower(), 4.0)
mood_to_numeric(mood) ==
    IF mood \in DOMAIN MOOD_VALUES THEN MOOD_VALUES[mood] ELSE 4

\* MoodAnalyzer._analyze_day_patterns: the average, in hundredths, of each
\* weekday (0 = Monday) that holds a row
analyze_day_patterns(ms) ==
    [d \in {Weekday(ms[i].date) : i \in 1 .. Len(ms)} |->
        LET OnDay(e) == Weekday(e.date) = d
            sel == SelectSeq(ms, OnDay)
        IN  Round(SumSeq([i \in 1 .. Len(sel) |-> mood_to_numeric(sel[i].mood)]),
                  Len(sel), 2)]

\* MoodAnalyzer.analyze_mood_patterns on the rows dated from today - days
\* on.  statistics.variance is the sample variance
\* (n * sum(y^2) - sum(y)^2) / (n * (n - 1)); average_mood, the variance and
\* mood_stability are in hundredths.  The rows carry no location or
\* activity, so these two tables are empty.
analyze_mood_patterns(rows, today, days) ==
    LET InPeriod(e) == e.date >= today - days
        ms == SelectSeq(rows, InPeriod)
        n == Len(ms)
        mood_values == [i \in 1 .. n |-> mood_to_numeric(ms[i].mood)]
        total == SumSeq(mood_values)
        squares == SumSeq([i \in 1 .. n |-> mood_values[i] * mood_values[i]])
        mood_variance == IF n > 1 THEN Round(n * squares - total * total, n * (n - 1), 2)
                         ELSE 0
    IN  IF ms = <<>>
        THEN [success |-> TRUE, period_days |-> days, total_entries |-> 0,
              average_mood |-> 0, mood_stability |-> 0, day_patterns |-> <<>>,
              location_patterns |-> <<>>, activity_patterns |-> <<>>,
              message |-> "No mood data found for analysis"]
        ELSE [success |-> TRUE, period_days |-> days, total_entries |-> n,
              average_mood |-> Round(total, n, 2),
              mood_stability |-> 1000 - mood_variance,
              day_patterns |-> analyze_day_patterns(ms),
              location_patterns |-> <<>>, activity_patterns |-> <<>>]

\* Mutant: the thresholds are exclusive
calculate_impact_strict(total, count) ==
    IF 2 * total > 11 * count THEN "Positive"
    ELSE IF 2 * total < 7 * count THEN "Negative"
    ELSE "Neutral"

\* MoodAnalyzer._calculate_impact of avg_mood = total / count
calculate_impact(total, count) ==
    IF 2 * total >= 11 * count THEN "Positive"
    ELSE IF 2 * total <= 7 * count THEN "Negative"
    ELSE "Neutral"

\* The entry of a tag; average_mood is in hundredths
TriggerEntry(rows, tag) ==
    LET tagged == Tagged(rows, tag)
        mood_values == [k \in 1 .. Len(tagged) |-> mood_to_numeric(tagged[k].mood)]
    IN  [tag |-> tag,
         average_mood |-> Round(SumSeq(mood_values), Len(mood_values), 2),
         frequency |-> Len(mood_values),
         impact |-> calculate_impact(SumSeq(mood_values), Len(mood_values))]

\* key=lambda x: (x['frequency'], x['average_mood']), reverse=True
ByFrequencyThenMood(entries) ==
    [e \in entries |-> <<e.frequency, e.average_mood>>]

\* The lists get_trigger_correlations may return on the rows of the user
get_trigger_correlations(rows) ==
    LET result == {TriggerEntry(rows, tag) : tag \in TagsOf(rows)}
    IN  Orderings(result, ByFrequencyThenMood(result))

\* Mutant: two observations are enough
SurfacedFromTwo(mood_values) == Len(mood_values) >= 2

\* if len(mood_values) >= 3
Surfaced(mood_values) == Len(mood_values) >= 3

\* The mood values of a tag in a list of rows, by MoodType.get_value
TagMoodValues(rows, tag) ==
    LET tagged == Tagged(rows, tag)
    IN  [k \in 1 .. Len(tagged) |-> get_value(tagged[k].mood)]

\* key=lambda x: x['average_mood'], reverse=True
ByMood(entries) == [e \in entries |-> <<e.average_mood, 0>>]

\* The lists InsightsService.get_tag_correlations may return
get_tag_correlations(rows, today) ==
    LET ms == find_by_user_and_date_range(rows, today - 30, today)
        surfaced == {tag \in TagsOf(ms) : Surfaced(TagMoodValues(ms, tag))}
        correlations == {[tag |-> tag,
                          average_mood |-> Round(SumSeq(TagMoodValues(ms, tag)),
                                                 Len(TagMoodValues(ms, tag)), 2),
                          count |-> Len(TagMoodValues(ms, tag))] : tag \in surfaced}
    IN  Orderings(correlations, ByMood(correlations))

-----------------------------------------------------------------------------
(* routes.daily_patterns *)

\* not result.get('labels') or not result.get('data'): a missing key and an
\* empty list are both falsy
LacksLabelsOrData(result) ==
    \/ "labels" \notin DOMAIN result
    \/ "data" \notin DOMAIN result
    \/ result.labels = <<>>
    \/ result.data = <<>>

\* The structure the endpoint "always returns" in place of such a result
FallbackStructure ==
    [labels |-> HourLabels, data |-> [h \in 1 .. 24 |-> None],
     period |-> <<"No data available">>]

\* The endpoint: selected_date is None when the request has no 'date';
\* an exception of the report leaves the endpoint
daily_patterns(rows, selected_date) ==
    LET report == IF selected_date # None
                  THEN get_daily_patterns_for_date(rows, selected_date)
                  ELSE get_daily_patterns(rows)
    IN  IF report.raised # "" THEN report
        ELSE IF LacksLabelsOrData(report.value) THEN Ok(FallbackStructure)
        ELSE report

-----------------------------------------------------------------------------
(* TrendAnalysisService.  A series slot is None or Num(v) with v in tenths  *)
(* (the chart averages it is fed are rounded to one decimal); slope,        *)
(* intercept and correlation are integers scaled by 10^4.                   *)

\* round(num/den, 4) by long division, so that no intermediate value
\* exceeds the integer width; ties go to the even neighbour
RECURSIVE ScaledDiv(_, _, _, _)
ScaledDiv(q, r, den, digits) ==
    IF digits = 0 THEN [q |-> q, r |-> r]
    ELSE ScaledDiv(q * 10 + (r * 10) \div den, (r * 10) % den, den, digits - 1)

Round4(num, den) ==
    LET s == ScaledDiv(num \div den, num % den, den, 4)
    IN  IF 2 * s.r < den THEN s.q
        ELSE IF 2 * s.r > den THEN s.q + 1
        ELSE IF s.q % 2 = 0 THEN s.q ELSE s.q + 1

\* floor(p/q * f1 * f2 * ...), one small factor at a time
RECURSIVE ScaleFloor(_, _, _, _)
ScaleFloor(whole, rem, q, factors) ==
    IF factors = <<>> THEN whole
    ELSE LET f == Head(factors)
         IN  ScaleFloor(whole * f + (rem * f) \div q, (rem * f) % q, q, Tail(factors))

\* floor(sqrt(x)) for lo <= sqrt(x) < hi
RECURSIVE Isqrt(_, _, _)
Isqrt(x, lo, hi) ==
    IF hi - lo <= 1 THEN lo
    ELSE LET mid == (lo + hi) \div 2
         IN  IF mid * mid <= x THEN Isqrt(x, mid, hi) ELSE Isqrt(x, lo, mid)

\* Mutant: the correlation loses its sign
RoundCorrelationUnsigned(n_xy, d_xx, v_yy) ==
    LET p == n_xy * n_xy
        q == d_xx * v_yy
        ratio == ScaleFloor(p \div q, p % q, q,
                            <<5, 5, 5, 5, 5, 5, 5, 5, 2, 2, 2, 2, 2, 2, 2, 2, 2, 2>>)
    IN  (Isqrt(ratio, 0, 20001) + 1) \div 2

\* round(numerator / (denominator * y_variance) ** 0.5, 4) for the sums
\* n_xy, d_xx, v_yy (each n times the code's sum): the nearest k has
\* (2k - 1)^2 <= 4 * 10^8 * n_xy^2 / (d_xx * v_yy) < (2k + 1)^2
RoundCorrelation(n_xy, d_xx, v_yy) ==
    LET p == n_xy * n_xy
        q == d_xx * v_yy
        ratio == ScaleFloor(p \div q, p % q, q,
                            <<5, 5, 5, 5, 5, 5, 5, 5, 2, 2, 2, 2, 2, 2, 2, 2, 2, 2>>)
        k == (Isqrt(ratio, 0, 20001) + 1) \div 2
    IN  IF n_xy < 0 THEN 0 - k ELSE k

\* enumerate(data_points)
Enumerate(data_points) ==
    [i \in 1 .. Len(data_points) |-> [x |-> i - 1, y |-> data_points[i]]]

\* if val is not None
IsValidPoint(p) == p.y # None

\* Mutant: the numbers are counted 0, 1, 2, ... after the nulls are dropped
ValidPointsRenumbered(data_points) ==
    LET kept == SelectSeq(Enumerate(data_points), IsValidPoint)
    IN  [k \in 1 .. Len(kept) |-> [x |-> k - 1, y |-> kept[k].y]]

\* valid_points
ValidPoints(data_points) == SelectSeq(Enumerate(data_points), IsValidPoint)

\* Mutant: the degenerate result reports a perfect correlation
ZeroRegressionUnit == [slope |-> 0, intercept |-> 0, correlation |-> 10000]

ZeroRegression == [slope |-> 0, intercept |-> 0, correlation |-> 0]

\* The code's sums are taken about the means; n times each of them is the
\* integer used here: numerator * n = n*Sxy - Sx*Sy, denominator * n =
\* n*Sxx - Sx^2, y_variance * n = n*Syy - Sy^2.
calculate_linear_regression(data_points) ==
    IF Len(data_points) < 2 THEN ZeroRegression
    ELSE LET valid_points == ValidPoints(data_points)
             n == Len(valid_points)
             x_values == [k \in 1 .. n |-> valid_points[k].x]
             y_values == [k \in 1 .. n |-> valid_points[k].y[1]]
             sx == SumSeq(x_values)
             sy == SumSeq(y_values)
             numerator == n * SumSeq([k \in 1 .. n |-> x_values[k] * y_values[k]]) - sx * sy
             denominator == n * SumSeq([k \in 1 .. n |-> x_values[k] * x_values[k]]) - sx * sx
             y_variance == n * SumSeq([k \in 1 .. n |-> y_values[k] * y_values[k]]) - sy * sy
         IN  IF n < 2 THEN ZeroRegression
             ELSE IF denominator = 0
             THEN [slope |-> 0, intercept |-> Round4(sy, 10 * n), correlation |-> 0]
             ELSE [slope |-> Round4(numerator, 10 * denominator),
                   intercept |-> Round4(sy * denominator - numerator * sx,
                                        10 * n * denominator),
                   correlation |-> IF y_variance = 0 THEN 0
                                   ELSE RoundCorrelation(numerator, denominator, y_variance)]

\* Mutant: only the lower end is clamped
ClampLow(trend_value) == IF trend_value < 10000 THEN 10000 ELSE trend_value

\* max(1, min(7, trend_value)), in units of 10^-4
Clamp(trend_value) ==
    IF trend_value < 10000 THEN 10000
    ELSE IF trend_value > 70000 THEN 70000 ELSE trend_value

\* round(trend_value, 2) of a value in units of 10^-4.  slope * i +
\* intercept is a binary float, so a value that is a decimal tie (x.xx5) is
\* stored just above or just below it and round() goes either way: 'up'
\* is the side the float falls on.
RoundTrend(trend_value, up) ==
    LET q == trend_value \div 100
        r == trend_value % 100
    IN  IF r < 50 THEN q
        ELSE IF r > 50 THEN q + 1
        ELSE IF up THEN q + 1 ELSE q

\* generate_trend_line_data: a slot is None or Num(v) with v in hundredths;
\* ups[i] is the side a tie at index i falls on
generate_trend_line_data(data_points, regression, ups) ==
    [i \in 1 .. Len(data_points) |->
        IF data_points[i] # None
        THEN Num(RoundTrend(Clamp(regression.slope * (i - 1) + regression.intercept),
                            ups[i]))
        ELSE None]

\* Mutant: the direction uses the thresholds of AnalyticsService.get_trends
get_trend_direction_unified(slope) ==
    IF slope > 500
    THEN [direction |-> "improving", icon |-> "trending_up",
          description |-> "Improving trend", color |-> "#4CAF50"]
    ELSE IF slope < -500
    THEN [direction |-> "declining", icon |-> "trending_down",
          description |-> "Declining trend", color |-> "#F44336"]
    ELSE [direction |-> "stable", icon |-> "trending_flat",
          description |-> "Stable trend", color |-> "#FF9800"]

\* get_trend_direction of a slope in units of 10^-4: 0.1 is 1000
get_trend_direction(slope) ==
    IF slope > 1000
    THEN [direction |-> "improving", icon |-> "trending_up",
          description |-> "Improving trend", color |-> "#4CAF50"]
    ELSE IF slope < -1000
    THEN [direction |-> "declining", icon |-> "trending_down",
          description |-> "Declining trend", color |-> "#F44336"]
    ELSE [direction |-> "stable", icon |-> "trending_flat",
          description |-> "Stable trend", color |-> "#FF9800"]

-----------------------------------------------------------------------------
(* features.analytics.service: the trend of the stored rows *)

\* The comparisons of get_trends with 0.05 and -0.05 on the slope
\* numerator / denominator, for a positive denominator
TrendOf(numerator, denominator) ==
    IF 20 * numerator > denominator THEN "improving"
    ELSE IF 20 * numerator < 0 - denominator THEN "declining"
    ELSE "stable"

\* AnalyticsService.get_trends: x is the position in the list the
\* repository returns.  n * (x - x_mean) and n * (y - y_mean) are
\* integers, so numerator and denominator are n^2 times the code's sums;
\* the slope is reported in units of 10^-4.
get_trends(rows, today, days) ==
    LET ms == find_by_user_and_date_range(rows, today - days, today)
        n == Len(ms)
        x_values == [i \in 1 .. n |-> i - 1]
        y_values == [i \in 1 .. n |-> get_value(ms[i].mood)]
        sx == SumSeq(x_values)
        sy == SumSeq(y_values)
        numerator == SumSeq([i \in 1 .. n |->
                                (n * x_values[i] - sx) * (n * y_values[i] - sy)])
        denominator == SumSeq([i \in 1 .. n |->
                                  (n * x_values[i] - sx) * (n * x_values[i] - sx)])
    IN  IF n < 2 THEN [trend |-> "insufficient_data", slope |-> 0]
        ELSE [trend |-> IF denominator # 0 THEN TrendOf(numerator, denominator)
                        ELSE "stable",
              slope |-> IF denominator # 0 THEN Round4(numerator, denominator) ELSE 0,
              period_days |-> <<days>>]

-----------------------------------------------------------------------------
(* routes.monthly_trends *)

\* Indices at which the trend line value is a decimal tie of round(.., 2)
TieIndices(data_points, regression) ==
    {i \in 1 .. Len(data_points) :
        /\ data_points[i] # None
        /\ Clamp(regression.slope * (i - 1) + regression.intercept) % 100 = 50}

\* Mutant: the trend line is written over the list it is computed from
DataPointsOverwritten(data_points, trend_line) == trend_line

\* The list data_points refers to after generate_trend_line_data: the
\* values are appended to a new list trend_line
DataPointsAfter(data_points, trend_line) == data_points

\* The body of the 500 answer of the except branch
MonthlyTrendsError(e, year) ==
    [error |-> e, data |-> [m \in 1 .. 12 |-> Num(0)],
     period |-> <<"Error loading", year>>]

\* monthly_trends for a given year argument; slope_percentage is in
\* hundredths, which is the slope in units of 10^-4
monthly_trends(rows, year, ups) ==
    LET result == get_monthly_trends_for_year(rows, year)
    IN  IF result.raised # "" THEN Ok(MonthlyTrendsError(result.raised, year))
        ELSE LET regression == calculate_linear_regression(result.value.data)
                 trend_direction == get_trend_direction(regression.slope)
                 trend_line == generate_trend_line_data(result.value.data, regression, ups)
             IN  Ok([data |-> DataPointsAfter(result.value.data, trend_line),
                     year |-> year,
                     trend_analysis |-> [regression |-> regression,
                                         direction |-> trend_direction,
                                         trend_line |-> trend_line,
                                         slope_percentage |-> regression.slope]])

-----------------------------------------------------------------------------
(* The state machine: rows are saved, and a report is requested on the     *)
(* list get_user_moods returns; response is what the last call returned.   *)

\* Labels and dates of the rows saved under Spec
InputMoods == {"slightly bad", "slightly well", "very well", "mystery"}

InputDates == {ToOrdinal(2023, 12, 30), ToOrdinal(2024, 1, 1), ToOrdinal(2024, 1, 3)}

\* Each row is stamped at 12:00 UTC of its date; 'very well' is saved on
\* 2024-01-01 only and the unrecognized label on 2023-12-30 only
InputRows ==
    {r \in {[mood |-> m, date |-> d,
             timestamp |-> <<[day |-> d, hour |-> 12, minute |-> 0]>>] :
                m \in InputMoods, d \in InputDates} :
        /\ r.mood = "very well" => r.date = ToOrdinal(2024, 1, 1)
        /\ r.mood = "mystery" => r.date = ToOrdinal(2023, 12, 30)}

\* Labels, dates and timestamps of the rows saved under SpecHourly
HourlyMoods == {"slightly bad", "very well", "mystery"}

HourlyDates == {ToOrdinal(2023, 12, 31), ToOrdinal(2024, 1, 1)}

HourlyTimestamps ==
    {None,
     <<[day |-> ToOrdinal(2024, 1, 1), hour |-> 1, minute |-> 30]>>,
     <<[day |-> ToOrdinal(2024, 1, 1), hour |-> 3, minute |-> 0]>>,
     <<[day |-> ToOrdinal(2023, 12, 31), hour |-> 22, minute |-> 15]>>}

\* A row saved at 03:00 UTC is dated 2024-01-01 and one saved at 22:15 UTC
\* 2023-12-31; the unrecognized label is saved at 22:15 only
HourlyRows ==
    {r \in [mood : HourlyMoods, date : HourlyDates, timestamp : HourlyTimestamps] :
        /\ (r.timestamp # None /\ r.timestamp[1].hour = 3) => r.date = ToOrdinal(2024, 1, 1)
        /\ (r.timestamp # None /\ r.timestamp[1].hour = 22) => r.date = ToOrdinal(2023, 12, 31)
        /\ r.mood = "mystery" => (r.timestamp # None /\ r.timestamp[1].hour = 22)}

\* Arguments of the requests
Periods ==
    {<<ToOrdinal(2024, 1, 1), ToOrdinal(2024, 1, 7)>>,
     <<ToOrdinal(2023, 12, 25), ToOrdinal(2024, 1, 1)>>}

Years == {2023, 2024}

Months == {<<2023, 12>>, <<2024, 1>>}

SelectedDates == {<<2023, 12, 31>>, <<2024, 1, 1>>, <<2024, 2, 30>>}

Todays == {ToOrdinal(2024, 1, 1), ToOrdinal(2024, 1, 2)}

Windows == {0, 30}

Response(op, args, ret) == [op |-> op, args |-> args, ret |-> ret]

Init ==
    /\ moods = <<>>
    /\ response = Response("none", <<>>, Ok(<<>>))

\* database.save_mood, then get_user_moods: the row takes a place the
\* ORDER BY allows
SaveRow(inputs, bound) ==
    /\ Len(moods) < bound
    /\ \E e \in inputs, i \in 1 .. (Len(moods) + 1) :
          /\ get_user_moods(InsertAt(moods, i, e))
          /\ moods' = InsertAt(moods, i, e)
    /\ response' = Response("save_mood", <<>>, Ok(<<>>))

SaveMood == SaveRow(InputRows, MaxMoods)

CalculateStreak ==
    /\ response' = Response("calculate_streak", <<>>, calculate_streak(moods))
    /\ UNCHANGED moods

CalculateAverages ==
    /\ response' = Response("calculate_averages", <<>>, calculate_averages(moods))
    /\ UNCHANGED moods

GetWeeklyPatterns ==
    /\ response' = Response("get_weekly_patterns", <<>>, get_weekly_patterns(moods))
    /\ UNCHANGED moods

GetWeeklyPatternsForPeriod ==
    /\ \E p \in Periods :
          response' = Response("get_weekly_patterns_for_period", p,
                               get_weekly_patterns_for_period(moods, p[1], p[2]))
    /\ UNCHANGED moods

\* The weekly trends of one of the given months are requested
WeeklyTrendsRequest(months) ==
    /\ \E ym \in months :
          response' = Response("get_weekly_trends_for_month", ym,
                               get_weekly_trends_for_month(moods, ym[1], ym[2]))
    /\ UNCHANGED moods

GetWeeklyTrendsForMonth == WeeklyTrendsRequest(Months)

GetMonthlyTrendsForYear ==
    /\ \E y \in Years :
          response' = Response("get_monthly_trends_for_year", <<y>>,
                               get_monthly_trends_for_year(moods, y))
    /\ UNCHANGED moods

Next ==
    \/ SaveMood
    \/ CalculateStreak
    \/ CalculateAverages
    \/ GetWeeklyPatterns
    \/ GetWeeklyPatternsForPeriod
    \/ GetWeeklyTrendsForMonth
    \/ GetMonthlyTrendsForYear

Spec == Init /\ [][Next]_vars

SaveHourlyMood == SaveRow(HourlyRows, MaxHourlyMoods)

GetDailyPatterns ==
    /\ response' = Response("get_daily_patterns", <<>>, get_daily_patterns(moods))
    /\ UNCHANGED moods

GetHourlyAverages ==
    /\ response' = Response("get_hourly_averages", <<>>, get_hourly_averages(moods))
    /\ UNCHANGED moods

GetDailyPatternsForDate ==
    \E d \in SelectedDates :
       /\ response' = Response("get_daily_patterns_for_date", d,
                               get_daily_patterns_for_date(moods, d))
       /\ moods' = MoodsAfterDailyPatternsForDate(moods, d)

GetHourlyPatterns ==
    /\ \E today \in Todays, days \in Windows :
          response' = Response("get_hourly_patterns", <<today, days>>,
                               get_hourly_patterns(moods, today, days))
    /\ UNCHANGED moods

NextHourly ==
    \/ SaveHourlyMood
    \/ GetDailyPatterns
    \/ GetHourlyAverages
    \/ GetDailyPatternsForDate
    \/ GetHourlyPatterns

SpecHourly == Init /\ [][NextHourly]_vars

-----------------------------------------------------------------------------
(* The daily_patterns endpoint on the stored rows *)

DailyPatterns ==
    /\ \E selected_date \in SelectedDates \cup {None} :
          response' = Response("daily_patterns", selected_date,
                               daily_patterns(moods, selected_date))
    /\ UNCHANGED moods

NextRoutes ==
    \/ SaveHourlyMood
    \/ DailyPatterns

SpecRoutes == Init /\ [][NextRoutes]_vars

-----------------------------------------------------------------------------
(* The reports on a list a caller hands to MoodAnalytics: entries in any   *)
(* order, with a datetime, a text or no timestamp                          *)

\* Longest list handed to MoodAnalytics
MaxEntries == 3

EntryMoods == {"slightly bad", "very well"}

EntryTimestamps ==
    {None,
     <<[day |-> ToOrdinal(2024, 1, 1), hour |-> 1, minute |-> 30]>>,
     <<"str", "yesterday evening">>}

\* 'very well' comes with the datetime timestamp only
Entries ==
    {e \in [mood : EntryMoods, date : {ToOrdinal(2024, 1, 1)},
            timestamp : EntryTimestamps] :
        e.mood = "very well" => (e.timestamp # None /\ ~IsStr(e.timestamp))}

\* MoodAnalytics(moods) on a list one entry longer
AppendEntry ==
    /\ Len(moods) < MaxEntries
    /\ \E e \in Entries : moods' = Append(moods, e)
    /\ response' = Response("MoodAnalytics", <<>>, Ok(<<>>))

GetSummary ==
    /\ response' = Response("get_summary", <<>>, get_summary(moods))
    /\ UNCHANGED moods

\* GET /monthly_trends?year=y; a tie of the trend line falls on either side
MonthlyTrends ==
    /\ \E y \in Years :
          LET result == get_monthly_trends_for_year(moods, y)
              ties == IF result.raised # "" THEN {}
                      ELSE TieIndices(result.value.data,
                                      calculate_linear_regression(result.value.data))
          IN  \E up \in SUBSET ties :
                 response' = Response("monthly_trends", <<y>>,
                                      monthly_trends(moods, y, [i \in 1 .. 12 |-> i \in up]))
    /\ UNCHANGED moods

NextReports ==
    \/ AppendEntry
    \/ CalculateStreak
    \/ CalculateAverages
    \/ GetWeeklyPatterns
    \/ GetMonthlyTrendsForYear
    \/ GetDailyPatterns
    \/ GetHourlyAverages
    \/ GetDailyPatternsForDate
    \/ GetSummary
    \/ MonthlyTrends

SpecReports == Init /\ [][NextReports]_vars

-----------------------------------------------------------------------------
(* The week reports on the stored rows *)

\* Most rows stored for the week reports
MaxWeekRows == 3

WeekMoods == {"slightly bad", "very well"}

\* 2023-11-27 is a Monday, 2023-12-01 a Friday, 2023-12-04 a Monday,
\* 2023-12-31 a Sunday
WeekDates ==
    {ToOrdinal(2023, 11, 27), ToOrdinal(2023, 12, 1), ToOrdinal(2023, 12, 4),
     ToOrdinal(2023, 12, 31), ToOrdinal(2024, 1, 1)}

\* 'very well' is saved on 2023-12-04 and 2023-12-31 only
WeekRows ==
    {r \in {[mood |-> m, date |-> d,
             timestamp |-> <<[day |-> d, hour |-> 12, minute |-> 0]>>] :
                m \in WeekMoods, d \in WeekDates} :
        r.mood = "very well" =>
            r.date \in {ToOrdinal(2023, 12, 4), ToOrdinal(2023, 12, 31)}}

\* Monday 2023-12-25 to Sunday 2023-12-31
WeekTodays == ToOrdinal(2023, 12, 25) .. ToOrdinal(2023, 12, 31)

SaveWeekRow == SaveRow(WeekRows, MaxWeekRows)

GetFourWeekComparison ==
    /\ \E today \in WeekTodays :
          response' = Response("get_four_week_comparison", today,
                               get_four_week_comparison(moods, today))
    /\ UNCHANGED moods

\* Every month of two years: 2023-05, 2024-01, 2024-04 and 2024-07 start
\* on a Monday, and February 2024 has 29 days
WeekMonths == {<<y, m>> : y \in 2023 .. 2024, m \in 1 .. 12}

GetWeeklyTrendsForAnyMonth == WeeklyTrendsRequest(WeekMonths)

NextWeeks ==
    \/ SaveWeekRow
    \/ GetWeeklyTrendsForAnyMonth
    \/ GetFourWeekComparison

SpecWeeks == Init /\ [][NextWeeks]_vars

-----------------------------------------------------------------------------
(* Tagged rows and the tag correlations *)

\* Most rows stored for the tag correlations
MaxTagged == 3

TagMoods == {"slightly bad", "neutral", "very well"}

\* The day the reports are asked for, the first day of its 30-day window
\* and the day before
TagToday == ToOrdinal(2024, 1, 31)

TagDates == {ToOrdinal(2023, 12, 31), ToOrdinal(2024, 1, 1)}

TagRows ==
    {[mood |-> m, date |-> d, timestamp |-> <<[day |-> d, hour |-> 12, minute |-> 0]>>,
      tags |-> {}] : m \in TagMoods, d \in TagDates}

\* The 'tags' of a save_mood_context request
TagLists == {{"work"}, {"work", "sleep"}}

SaveTagRow == SaveRow(TagRows, MaxTagged)

\* routes.save_mood_context: the tags of the most recent row are replaced
SaveMoodContext ==
    /\ moods # <<>>
    /\ \E tags \in TagLists :
          moods' = [moods EXCEPT ![1] = [@ EXCEPT !.tags = tags]]
    /\ response' = Response("save_mood_context", <<>>, Ok(<<>>))

GetTriggerCorrelations ==
    /\ \E result \in get_trigger_correlations(moods) :
          response' = Response("get_trigger_correlations", <<>>, Ok(result))
    /\ UNCHANGED moods

GetTagCorrelations ==
    /\ \E result \in get_tag_correlations(moods, TagToday) :
          response' = Response("get_tag_correlations", TagToday, Ok(result))
    /\ UNCHANGED moods

NextTags ==
    \/ SaveTagRow
    \/ SaveMoodContext
    \/ GetTriggerCorrelations
    \/ GetTagCorrelations

SpecTags == Init /\ [][NextTags]_vars

-----------------------------------------------------------------------------
(* The trend analysis applied to a chart series *)

\* Longest series handed to the trend analysis
MaxSeries == 4

\* 0.0, 1.0, 2.0, 3.0, 4.0 and 7.0 in tenths, and the gap
SeriesSlots == {None, Num(0), Num(10), Num(20), Num(30), Num(40), Num(70)}

RECURSIVE SeqsUpTo(_, _)
SeqsUpTo(S, n) ==
    IF n = 0 THEN {<<>>}
    ELSE LET shorter == SeqsUpTo(S, n - 1)
         IN  shorter \cup {Append(s, e) : s \in {t \in shorter : Len(t) = n - 1}, e \in S}

Series == SeqsUpTo(SeriesSlots, MaxSeries)

\* Regressions handed to generate_trend_line_data besides the fit of the
\* series itself: lines that leave the range 1..7 on either side
OtherRegressions ==
    {[slope |-> 25000, intercept |-> 55000, correlation |-> 10000],
     [slope |-> -12345, intercept |-> 21250, correlation |-> -5000]}

\* The series is the 'data' of a chart report, held as the response the
\* trend analysis is applied to (routes.monthly_trends)
InitTrend ==
    /\ moods = <<>>
    /\ \E data_points \in Series : response = Response("data", <<>>, Ok(data_points))

CalculateLinearRegression ==
    /\ response.op = "data"
    /\ response' = Response("calculate_linear_regression", response.ret.value,
                            Ok(calculate_linear_regression(response.ret.value)))
    /\ UNCHANGED moods

GenerateTrendLineData ==
    /\ response.op = "calculate_linear_regression"
    /\ \E regression \in {response.ret.value} \cup OtherRegressions,
          ups \in [1 .. Len(response.args) -> BOOLEAN] :
          response' = Response("generate_trend_line_data",
                               <<response.args, regression>>,
                               Ok(generate_trend_line_data(response.args, regression, ups)))
    /\ UNCHANGED moods

NextTrend ==
    \/ CalculateLinearRegression
    \/ GenerateTrendLineData

SpecTrend == InitTrend /\ [][NextTrend]_vars

-----------------------------------------------------------------------------
(* The analytics service over the stored rows: one row is saved each day   *)
(* from 2024-01-01 on, and the trend is requested on 2024-01-08.           *)

\* Most rows saved
MaxServiceRows == 6

ServiceMoods == {"bad", "neutral", "very well"}

ServiceFirstDay == ToOrdinal(2024, 1, 1)

ServiceToday == ToOrdinal(2024, 1, 8)

\* The days argument of get_trends
ServiceWindows == {3, 30}

\* The rows that can be saved after the first k days
ServiceRows(k) ==
    {[mood |-> m, date |-> ServiceFirstDay + k,
      timestamp |-> <<[day |-> ServiceFirstDay + k, hour |-> 12, minute |-> 0]>>] :
        m \in ServiceMoods}

\* Slopes handed to get_trend_direction, in units of 10^-4
DirectionSlopes == {-1001, -1000, -999, -501, -500, 0, 500, 501, 999, 1000, 1001}

\* Strings handed to MoodType.get_value
ValueStrings == DOMAIN MOOD_VALUES \cup {"mystery", "Very Well", ""}

SaveServiceRow == SaveRow(ServiceRows(Len(moods)), MaxServiceRows)

GetTrends ==
    /\ \E days \in ServiceWindows :
          response' = Response("get_trends", <<days>>,
                               Ok(get_trends(moods, ServiceToday, days)))
    /\ UNCHANGED moods

\* The slope is one of DirectionSlopes or the slope get_trends just reported
GetTrendDirection ==
    /\ \E slope \in DirectionSlopes \cup
                    (IF response.op = "get_trends" THEN {response.ret.value.slope} ELSE {}) :
          response' = Response("get_trend_direction", <<slope>>,
                               Ok(get_trend_direction(slope)))
    /\ UNCHANGED moods

GetValue ==
    /\ \E mood_str \in ValueStrings :
          response' = Response("get_value", <<mood_str>>, Ok(get_value(mood_str)))
    /\ UNCHANGED moods

AnalyzeMoodPatterns ==
    /\ \E days \in ServiceWindows :
          response' = Response("analyze_mood_patterns", <<days>>,
                               Ok(analyze_mood_patterns(moods, ServiceToday, days)))
    /\ UNCHANGED moods

NextService ==
    \/ SaveServiceRow
    \/ GetTrends
    \/ GetTrendDirection
    \/ GetValue
    \/ AnalyzeMoodPatterns

SpecService == Init /\ [][NextService]_vars

-----------------------------------------------------------------------------
(* Properties.  The helpers below restate what a report should hold from   *)
(* the rows themselves: index sets instead of the loops of the code.       *)

Returned(op) == response.op = op /\ response.ret.raised = ""

Indices == 1 .. Len(moods)

\* The value of a row on the 1..7 scale, an unrecognized label being neutral
ScaleValue(k) == get_value(moods[k].mood)

RECURSIVE SumOver(_, _)
SumOver(f, S) ==
    IF S = {} THEN 0
    ELSE LET x == CHOOSE y \in S : TRUE
         IN  f[x] + SumOver(f, S \ {x})

RECURSIVE ProductOver(_, _)
ProductOver(f, S) ==
    IF S = {} THEN 1
    ELSE LET x == CHOOSE y \in S : TRUE
         IN  f[x] * ProductOver(f, S \ {x})

\* Sum of the values of the rows with index in S
ValueSum(S) == SumOver([k \in S |-> ScaleValue(k)], S)

\* v is num/den reported to the given number of decimals (scaled by 10^digits)
IsRounded(v, num, den, digits) ==
    LET diff == num * Pow10(digits) - v * den
    IN  2 * (IF diff < 0 THEN -diff ELSE diff) <= den

\* slot is the average of the rows with index in S, or empty when S is empty
IsAverageSlot(slot, S, digits, empty) ==
    IF S = {} THEN slot = empty
    ELSE /\ Len(slot) = 1
         /\ IsRounded(slot[1], ValueSum(S), Cardinality(S), digits)

StoredDates == {moods[k].date : k \in Indices}

OnDate(d) == {k \in Indices : moods[k].date = d}

\* The mean of the per-date averages of the dates in T, as a quotient
\* MeanNum(T) / MeanDen(T)
DateCounts(T) == [d \in T |-> Cardinality(OnDate(d))]

MeanNum(T) ==
    LET P == ProductOver(DateCounts(T), T)
    IN  SumOver([d \in T |-> ValueSum(OnDate(d)) * (P \div DateCounts(T)[d])], T)

MeanDen(T) == ProductOver(DateCounts(T), T) * Cardinality(T)

GoodDates == {d \in StoredDates : ValueSum(OnDate(d)) >= 5 * Cardinality(OnDate(d))}

BadDates == {d \in StoredDates : ValueSum(OnDate(d)) <= 3 * Cardinality(OnDate(d))}

\* v is the mean of the per-date averages of T, to 2 decimals; 0 for no date
IsMeanOfDates(v, T) ==
    IF T = {} THEN v = 0 ELSE IsRounded(v, MeanNum(T), MeanDen(T), 2)

\* The mean of the per-date averages is not the flat mean of all entries
MeansDiffer == MeanNum(StoredDates) * Len(moods) # ValueSum(Indices) * MeanDen(StoredDates)

\* Two dates hold different numbers of entries with different means
UnevenDates ==
    \E d1, d2 \in StoredDates :
        /\ Cardinality(OnDate(d1)) # Cardinality(OnDate(d2))
        /\ ValueSum(OnDate(d1)) * Cardinality(OnDate(d2))
               # ValueSum(OnDate(d2)) * Cardinality(OnDate(d1))

\* The length of the longest prefix of good entries (value >= 5)
RECURSIVE GoodPrefix(_)
GoodPrefix(ms) ==
    IF ms = <<>> \/ get_value(Head(ms).mood) < 5 THEN 0
    ELSE 1 + GoodPrefix(Tail(ms))

\* C1: calculate_streak, given the rows most recent first, returns the
\* length of the longest prefix of rows with mood value >= 5 (it counts from
\* the most recent row backwards and stops at the first row below 5).
C1_StreakIsGoodPrefix ==
    Returned("calculate_streak") => response.ret.value = GoodPrefix(moods)

\* C2: no report operation fails on an unrecognized mood label; the label
\* counts as 4 and the operation completes normally.
C2_UnknownLabelNeverRaises ==
    response.op \in {"calculate_streak", "calculate_averages", "get_weekly_patterns",
                     "get_weekly_patterns_for_period", "get_weekly_trends_for_month",
                     "get_monthly_trends_for_year"}
        => response.ret.raised = ""

\* The mean of the per-date averages is what calculate_averages reports as
\* 'daily' (to 2 decimals)
DailyIsMeanOfDateAverages ==
    (Returned("calculate_averages") /\ moods # <<>>)
        => IsMeanOfDates(response.ret.value.daily, StoredDates)

\* C3 as stated: 'daily' is the mean of the per-date averages, and that mean
\* differs from the flat mean of all entries whenever dates hold different
\* numbers of entries with different means.
C3_DailyDiffersWheneverUneven ==
    /\ DailyIsMeanOfDateAverages
    /\ (Returned("calculate_averages") /\ UnevenDates) => MeansDiffer

\* C3 amended: 'daily' is the mean of the per-date averages (to 2 decimals),
\* not the flat mean of all entries; the unrounded two differ whenever the
\* entries fall on exactly two dates that hold different numbers of entries
\* with different means.
C3_DailyIsMeanOfDateAverages ==
    /\ DailyIsMeanOfDateAverages
    /\ (Returned("calculate_averages") /\ UnevenDates /\ Cardinality(StoredDates) = 2)
           => MeansDiffer

\* calculate_averages has reported a 'daily' that is not the flat mean to 2
\* decimals, from two dates holding different numbers of entries
C3_Witness ==
    /\ Returned("calculate_averages")
    /\ Cardinality(StoredDates) = 2
    /\ UnevenDates
    /\ ~IsRounded(response.ret.value.daily, ValueSum(Indices), Len(moods), 2)

\* C4: 'good_days' is the mean of exactly the per-date averages >= 5,
\* 'bad_days' the mean of exactly those <= 3 (a date whose average lies
\* strictly between 3 and 5 is in neither), each 0 when it has no date.
C4_GoodAndBadDays ==
    (Returned("calculate_averages") /\ moods # <<>>)
        => /\ IsMeanOfDates(response.ret.value.good_days, GoodDates)
           /\ IsMeanOfDates(response.ret.value.bad_days, BadDates)

\* calculate_averages has reported on a good date, a bad date and a date in
\* neither class, one of them with an average of exactly 5
C4_Witness ==
    /\ Returned("calculate_averages")
    /\ GoodDates # {}
    /\ BadDates # {}
    /\ StoredDates \ (GoodDates \cup BadDates) # {}
    /\ \E d \in GoodDates : ValueSum(OnDate(d)) = 5 * Cardinality(OnDate(d))
    /\ response.ret.value.good_days > 0
    /\ response.ret.value.bad_days > 0

\* C5: 'total_entries' of calculate_averages is the number of entries of the
\* input list, also when several entries share a date.
C5_TotalEntriesIsLength ==
    Returned("calculate_averages") => response.ret.value.total_entries = Len(moods)

\* Weekday of a date counted from a known Monday, 2024-01-01: 0 = Monday
DaysFromMonday(o) == (o - ToOrdinal(2024, 1, 1)) % 7

\* The rows dated within [start, end] that fall on weekday i
InPeriodOn(start, end, i) ==
    {k \in Indices : start <= moods[k].date /\ moods[k].date <= end
                     /\ DaysFromMonday(moods[k].date) = i}

\* C6: get_weekly_patterns_for_period(start, end) returns 7 slots Monday to
\* Sunday; data[i] is null (never 0) exactly when no entry dated within
\* [start, end] falls on weekday i, counts[i] is the number of such entries
\* and data[i] their average otherwise; entries outside [start, end]
\* influence no slot.
C6_WeeklyPeriodSlots ==
    Returned("get_weekly_patterns_for_period") =>
        LET v == response.ret.value
        IN  /\ Len(v.data) = 7
            /\ Len(v.counts) = 7
            /\ \A i \in 0 .. 6 :
                  LET S == InPeriodOn(response.args[1], response.args[2], i)
                  IN  /\ v.counts[i + 1] = Cardinality(S)
                      /\ IsAverageSlot(v.data[i + 1], S, 2, None)
                      /\ v.data[i + 1] # Num(0)

\* A period with entries on Monday and Wednesday only, and an entry outside
\* of it, has been reported
C6_Witness ==
    /\ Returned("get_weekly_patterns_for_period")
    /\ \E k \in Indices : moods[k].date < response.args[1]
    /\ \A i \in 1 .. 7 : (response.ret.value.data[i] # None) <=> (i \in {1, 3})
    /\ \E i \in 1 .. 7 : response.ret.value.counts[i] = 2

\* The rows dated in month m of year y
InMonthOf(y, m) ==
    {k \in Indices : /\ ToOrdinal(y, m, 1) <= moods[k].date
                     /\ moods[k].date <= ToOrdinal(y, m, DaysInMonth(y, m))}

\* C7: get_monthly_trends_for_year(year) returns 12 slots January to
\* December; a month with no entries dated in that year holds the number 0
\* (never null), a month with entries holds their average (to 1 decimal);
\* entries dated in other years influence no slot.
C7_MonthlySlots ==
    Returned("get_monthly_trends_for_year") =>
        LET v == response.ret.value
        IN  /\ Len(v.data) = 12
            /\ \A m \in 1 .. 12 :
                  /\ IsAverageSlot(v.data[m], InMonthOf(response.args[1], m), 1, Num(0))
                  /\ v.data[m] # None

\* A year with entries in January and none in March has been reported,
\* while an entry of December of the year before is stored
C7_Witness ==
    /\ Returned("get_monthly_trends_for_year")
    /\ response.args[1] = 2024
    /\ InMonthOf(2023, 12) # {}
    /\ Cardinality(InMonthOf(2024, 1)) >= 2
    /\ response.ret.value.data[1] # Num(0)
    /\ response.ret.value.data[3] = Num(0)
    /\ response.ret.value.data[12] = Num(0)

\* The rows with a timestamp whose UTC hour h has (h - 3) mod 24 = k
AtCivilHour(S, k) ==
    {i \in S : /\ moods[i].timestamp # None
               /\ (moods[i].timestamp[1].hour + 21) % 24 = k}

\* C8: get_hourly_averages and get_daily_patterns return 24 slots; an entry
\* with a UTC timestamp at hour h is counted in slot (h - 3) mod 24 and in no
\* other, a slot with no entries is null (never 0), and entries without a
\* timestamp are counted in no slot.
C8_HourlySlots ==
    (Returned("get_hourly_averages") \/ Returned("get_daily_patterns")) =>
        LET v == response.ret.value
        IN  /\ Len(v.data) = 24
            /\ \A k \in 0 .. 23 :
                  /\ IsAverageSlot(v.data[k + 1], AtCivilHour(Indices, k), 2, None)
                  /\ v.data[k + 1] # Num(0)
                  /\ response.op = "get_hourly_averages"
                         => v.counts[k + 1] = Cardinality(AtCivilHour(Indices, k))

\* The all-time hourly report has counted an entry of 01:30 UTC in slot 22
\* and left slot 1 empty, with an entry without timestamp stored
C8_Witness ==
    /\ Returned("get_hourly_averages")
    /\ \E i \in Indices : moods[i].timestamp = None
    /\ \E i \in Indices : moods[i].timestamp # None /\ moods[i].timestamp[1].hour = 1
    /\ response.ret.value.data[23] # None
    /\ response.ret.value.data[2] = None
    /\ \E k \in 1 .. 24 : response.ret.value.counts[k] = 2

\* The rows find_by_user_and_date_range hands to get_hourly_patterns(today, days)
InWindow(today, days) ==
    {i \in Indices : today - days <= moods[i].date /\ moods[i].date <= today}

\* C9: AnalyticsService.get_hourly_patterns buckets each observation of the
\* window by its hour after the UTC-3 conversion, the bucket of the all-time
\* hourly report, and every hour without observations is reported as empty.
C9_WindowHourlyIsCivil ==
    Returned("get_hourly_patterns") =>
        LET ha == response.ret.value.hourly_averages
            S == InWindow(response.args[1], response.args[2])
        IN  \A k \in 0 .. 23 :
               IF AtCivilHour(S, k) = {} THEN k \notin DOMAIN ha
               ELSE /\ k \in DOMAIN ha
                    /\ IsRounded(ha[k], ValueSum(AtCivilHour(S, k)),
                                 Cardinality(AtCivilHour(S, k)), 2)

\* The local date of a stamped row: the UTC date, or the day before it when
\* the UTC time is 00:00 to 02:59
LocalDate(i) ==
    IF moods[i].timestamp[1].hour < 3
    THEN moods[i].timestamp[1].day - 1
    ELSE moods[i].timestamp[1].day

\* The rows get_daily_patterns_for_date should return for the date
LocalOn(target) ==
    {i \in Indices : moods[i].timestamp # None /\ LocalDate(i) = target}

\* C10: local time is the UTC timestamp minus exactly 3 hours: an entry
\* stamped 00:00 to 02:59 UTC on date D is returned by
\* get_daily_patterns_for_date for D-1 and not for D, whatever its stored
\* date; every returned point is placed at its timestamp minus 3 hours.
C10_LocalDateIsUtcMinus3 ==
    (Returned("get_daily_patterns_for_date") /\ IsDateStr(response.args)) =>
        LET v == response.ret.value
            target == ToOrdinal(response.args[1], response.args[2], response.args[3])
        IN  /\ Len(v.mood_points) = Cardinality(LocalOn(target))
            /\ \A i \in LocalOn(target) :
                  \E p \in 1 .. Len(v.mood_points) :
                     /\ v.mood_points[p].mood = moods[i].mood
                     /\ Instant(v.mood_points[p].timestamp)
                            = Instant(moods[i].timestamp[1]) - 180
                     /\ v.mood_points[p].timestamp.day = target
                     /\ v.mood_points[p].x60
                            = (Instant(moods[i].timestamp[1]) - 180) % 1440

\* An entry stamped 01:30 UTC on 2024-01-01 and stored under 2024-01-01 has
\* been returned for 2023-12-31
C10_Witness ==
    /\ Returned("get_daily_patterns_for_date")
    /\ response.args = <<2023, 12, 31>>
    /\ \E i \in Indices :
          /\ moods[i].timestamp # None
          /\ moods[i].timestamp[1].hour = 1
          /\ moods[i].timestamp[1].day = ToOrdinal(2024, 1, 1)
          /\ moods[i].date = ToOrdinal(2024, 1, 1)
    /\ \E p \in 1 .. Len(response.ret.value.mood_points) :
          response.ret.value.mood_points[p].x60 = 22 * 60 + 30

-----------------------------------------------------------------------------
(* Trend analysis *)

\* The indices of a series that hold a number
NonNull(series) == {i \in 1 .. Len(series) : series[i] # None}

\* All the numbers of a series are the same
AllEqual(series) == \A i, j \in NonNull(series) : series[i] = series[j]

\* A null-free series of two or more values on the line b + a * index
OnLine(series) ==
    /\ Len(series) >= 2
    /\ NonNull(series) = 1 .. Len(series)
    /\ \A i \in 1 .. Len(series) :
          series[i][1] = series[1][1] + (i - 1) * (series[2][1] - series[1][1])

\* a of such a series, in tenths
LineSlope(series) == series[2][1] - series[1][1]

\* C11: calculate_linear_regression returns slope 0, intercept 0 and
\* correlation 0 for a series with fewer than two numbers (empty, one
\* element, or nulls but for one), and slope 0 with correlation 0 when all
\* its numbers are equal; it returns a result in each of these cases.
C11_DegenerateRegression ==
    response.op = "calculate_linear_regression" =>
        LET series == response.args
            r == response.ret.value
        IN  /\ response.ret.raised = ""
            /\ Cardinality(NonNull(series)) < 2 =>
                  r = [slope |-> 0, intercept |-> 0, correlation |-> 0]
            /\ AllEqual(series) => r.slope = 0 /\ r.correlation = 0

\* Two equal numbers around a gap: the fit is flat at their value
C11_Witness ==
    /\ Returned("calculate_linear_regression")
    /\ Len(response.args) >= 3
    /\ Cardinality(NonNull(response.args)) = 2
    /\ response.args[2] = None
    /\ AllEqual(response.args)
    /\ response.ret.value.intercept = 40000

\* C12: for a null-free series of two or more values on the line
\* a * i + b, calculate_linear_regression returns slope a, intercept b and
\* correlation 1 when a > 0, and correlation -1 when a < 0.
C12_ExactLine ==
    (response.op = "calculate_linear_regression" /\ OnLine(response.args)) =>
        LET series == response.args
            r == response.ret.value
        IN  /\ LineSlope(series) > 0 =>
                  /\ r.slope = LineSlope(series) * 1000
                  /\ r.intercept = series[1][1] * 1000
                  /\ r.correlation = 10000
            /\ LineSlope(series) < 0 => r.correlation = -10000

\* Four values on a rising line
C12_Witness ==
    /\ Returned("calculate_linear_regression")
    /\ OnLine(response.args)
    /\ Len(response.args) = 4
    /\ LineSlope(response.args) > 0
    /\ response.ret.value.correlation = 10000

\* C13: generate_trend_line_data returns as many entries as the series
\* has; an entry is null exactly where the series is null, and is otherwise
\* slope * i + intercept clamped into 1..7 (to two decimals), so never
\* below 1 nor above 7.
C13_TrendLine ==
    response.op = "generate_trend_line_data" =>
        LET series == response.args[1]
            regression == response.args[2]
            line == response.ret.value
        IN  /\ response.ret.raised = ""
            /\ Len(line) = Len(series)
            /\ \A i \in 1 .. Len(series) :
                  /\ line[i] = None <=> series[i] = None
                  /\ line[i] # None =>
                        LET raw == regression.slope * (i - 1) + regression.intercept
                            clamped == IF raw < 10000 THEN 10000
                                       ELSE IF raw > 70000 THEN 70000 ELSE raw
                        IN  /\ line[i][1] >= 100
                            /\ line[i][1] <= 700
                            /\ 100 * line[i][1] - clamped <= 50
                            /\ clamped - 100 * line[i][1] <= 50

\* A line of the fit of its own series with a gap, a slot clamped at 1 and
\* a slot inside the range
C13_Witness ==
    /\ Returned("generate_trend_line_data")
    /\ response.args[2] = calculate_linear_regression(response.args[1])
    /\ \E i, j, k \in 1 .. Len(response.args[1]) :
          /\ response.ret.value[i] = None
          /\ response.ret.value[j] = Num(100)
          /\ response.args[2].slope * (j - 1) + response.args[2].intercept < 10000
          /\ response.ret.value[k] # None
          /\ response.ret.value[k] # Num(100)

-----------------------------------------------------------------------------
(* The daily_patterns endpoint *)

\* C14: for the daily-pattern query an unparsable date yields a result
\* marked as an invalid-date error and a parsable date without
\* observations a no-data result; the invalid-date marking is what the
\* caller of the daily_patterns endpoint receives.
C14_InvalidDateIsMarked ==
    (Returned("daily_patterns") /\ response.args # None) =>
        LET period == response.ret.value.period
        IN  IF IsDateStr(response.args)
            THEN period[1] # "Invalid date"
            ELSE period = <<"Invalid date", response.args>>

-----------------------------------------------------------------------------
(* Reports on a caller's list *)

\* The entry carries a datetime
WellStamped(e) == HasTimestamp(e) /\ ~IsStr(e.timestamp)

\* C15: in the time-bucketed reports an observation whose timestamp is
\* missing or is an unparsable text is skipped and the report is produced
\* from the others: the report returns, and get_hourly_averages counts
\* exactly the observations that carry a datetime.
C15_BadTimestampIsSkipped ==
    (/\ response.op \in {"get_daily_patterns", "get_hourly_averages",
                         "get_daily_patterns_for_date"}
     /\ AllKnown(moods)) =>
        /\ response.ret.raised = ""
        /\ response.op = "get_hourly_averages" =>
              SumSeq(response.ret.value.counts) = Len(SelectSeq(moods, WellStamped))

\* C18: on an empty list every report returns its empty structure:
\* calculate_streak 0, calculate_averages all zeros, get_weekly_patterns 7
\* slots, get_daily_patterns and get_hourly_averages 24 null slots,
\* get_monthly_trends_for_year 12 zero slots, get_summary with streak 0,
\* no entries and best day 'N/A'.
C18_EmptyListReports ==
    (moods = <<>> /\ response.op \notin {"none", "MoodAnalytics"}) =>
        LET v == response.ret.value
        IN  /\ response.ret.raised = ""
            /\ response.op = "calculate_streak" => v = 0
            /\ response.op = "calculate_averages" =>
                  v = [daily |-> 0, good_days |-> 0, bad_days |-> 0, total_entries |-> 0]
            /\ response.op = "get_weekly_patterns" => Len(v.data) = 7
            /\ response.op \in {"get_daily_patterns", "get_hourly_averages"} =>
                  v.data = [h \in 1 .. 24 |-> None]
            /\ response.op = "get_monthly_trends_for_year" =>
                  v.data = [m \in 1 .. 12 |-> Num(0)]
            /\ response.op = "get_summary" =>
                  /\ v.current_streak = 0
                  /\ v.total_entries = 0
                  /\ v.best_day = "N/A"

\* The summary of the empty list
C18_Witness ==
    /\ moods = <<>>
    /\ Returned("get_summary")
    /\ response.ret.value.best_day = "N/A"
    /\ response.ret.value.weekly_patterns.data = [d \in 1 .. 7 |-> Num(0)]

-----------------------------------------------------------------------------
(* Week reports *)

\* C16: the four windows of the 4-week comparison split the fetched range:
\* every stored observation dated from today - 28 days to today is counted
\* in exactly one window's entries, so with no row dated after today the
\* entries of the windows add up to the observations fetched.
C16_WindowsSplitLast28Days ==
    (/\ Returned("get_four_week_comparison")
     /\ \A k \in Indices : moods[k].date <= response.args) =>
        LET weeks == response.ret.value.weeks
        IN  SumSeq([w \in 1 .. Len(weeks) |-> weeks[w].entries_count])
               = Cardinality({k \in Indices : moods[k].date >= response.args - 28})

\* C17: get_weekly_trends_for_month splits the whole month into weeks, the
\* first one partial when the month does not start on a Monday: every
\* observation dated within the month is counted in a week bucket and none
\* dated outside is, so some week has a non-zero average exactly when the
\* month holds an observation.
C17_MonthSplitIntoWeeks ==
    Returned("get_weekly_trends_for_month") =>
        LET data == response.ret.value.data
            in_month == {k \in Indices :
                            /\ YearOf(moods[k].date) = response.args[1]
                            /\ MonthOf(moods[k].date) = response.args[2]}
        IN  (in_month # {}) <=> (\E w \in 1 .. Len(data) : data[w] # Num(0))

-----------------------------------------------------------------------------
(* Tag correlations *)

\* The stored rows linked to a tag, and those of them in the 30-day window
WithTag(tag) == {k \in Indices : tag \in moods[k].tags}

WithTagInWindow(tag, today) ==
    {k \in WithTag(tag) : moods[k].date >= today - 30 /\ moods[k].date <= today}

\* The tags of the entries of a returned list
ResultTags == {response.ret.value[i].tag : i \in 1 .. Len(response.ret.value)}

\* C19: get_trigger_correlations classifies a tag by the average mood
\* value of all its observations: 'Positive' exactly when the average is
\* >= 5.5, 'Negative' exactly when it is <= 3.5, 'Neutral' otherwise.
C19_ImpactThresholds ==
    Returned("get_trigger_correlations") =>
        \A i \in 1 .. Len(response.ret.value) :
            LET entry == response.ret.value[i]
                total == ValueSum(WithTag(entry.tag))
                count == Cardinality(WithTag(entry.tag))
            IN  /\ entry.frequency = count
                /\ entry.impact = "Positive" <=> 2 * total >= 11 * count
                /\ entry.impact = "Negative" <=> 2 * total <= 7 * count
                /\ entry.impact = "Neutral" <=>
                      (2 * total < 11 * count /\ 2 * total > 7 * count)

\* A tag averaging exactly 5.5 next to a tag in between the thresholds
C19_Witness ==
    /\ Returned("get_trigger_correlations")
    /\ \E i, j \in 1 .. Len(response.ret.value) :
          /\ response.ret.value[i].average_mood = 550
          /\ response.ret.value[i].frequency = 2
          /\ response.ret.value[i].impact = "Positive"
          /\ response.ret.value[j].impact = "Neutral"

\* C20: InsightsService.get_tag_correlations surfaces a tag if and only if
\* at least 3 observations of the window carry it, and
\* MoodAnalyzer.get_trigger_correlations surfaces every tag that at least
\* 1 observation carries.
C20_MinimumSamples ==
    /\ Returned("get_tag_correlations") =>
          ResultTags = {tag \in TagsOf(moods) :
                           Cardinality(WithTagInWindow(tag, response.args)) >= 3}
    /\ Returned("get_trigger_correlations") =>
          ResultTags = {tag \in TagsOf(moods) : Cardinality(WithTag(tag)) >= 1}

\* A tag on 3 observations of the window is surfaced, a tag on 2 is not
C20_Witness ==
    /\ Returned("get_tag_correlations")
    /\ ResultTags = {"work"}
    /\ response.ret.value[1].count = 3
    /\ Cardinality(WithTagInWindow("sleep", response.args)) = 2

-----------------------------------------------------------------------------
(* The two trend classifiers *)

\* Indices of the stored rows dated within the last 'days' days of ServiceToday
InTrendWindow(days) ==
    {k \in Indices : moods[k].date >= ServiceToday - days /\ moods[k].date <= ServiceToday}

\* Position of row k among the rows of S, counted from the front of the
\* stored list, and counted from the oldest row
ListPosition(S, k) == Cardinality({j \in S : j < k})

ChronologicalPosition(S, k) == Cardinality({j \in S : j > k})

\* Least-squares slope of value against position pos over the rows of S,
\* as the quotient SlopeNum / SlopeDen (SlopeDen > 0 for two or more rows)
SlopeNum(S, pos) ==
    Cardinality(S) * SumOver([k \in S |-> pos[k] * ScaleValue(k)], S)
        - SumOver(pos, S) * ValueSum(S)

SlopeDen(S, pos) ==
    Cardinality(S) * SumOver([k \in S |-> pos[k] * pos[k]], S)
        - SumOver(pos, S) * SumOver(pos, S)

ListSlopeNum(S) == SlopeNum(S, [k \in S |-> ListPosition(S, k)])

ListSlopeDen(S) == SlopeDen(S, [k \in S |-> ListPosition(S, k)])

ChronologicalSlopeNum(S) == SlopeNum(S, [k \in S |-> ChronologicalPosition(S, k)])

ChronologicalSlopeDen(S) == SlopeDen(S, [k \in S |-> ChronologicalPosition(S, k)])

\* C21: get_trend_direction answers 'improving' exactly for a slope above
\* 0.1, 'declining' exactly for a slope below -0.1 and 'stable' otherwise
\* (0.1 and -0.1 included), while get_trends answers 'improving' exactly
\* for a slope above 0.05 and 'declining' exactly for a slope below -0.05,
\* the slope being that of value against position in the list it is given.
C21_DistinctThresholds ==
    /\ Returned("get_trend_direction") =>
          LET slope == response.args[1]
              direction == response.ret.value.direction
          IN  /\ direction = "improving" <=> slope > 1000
              /\ direction = "declining" <=> slope < -1000
              /\ direction = "stable" <=> (slope >= -1000 /\ slope <= 1000)
    /\ Returned("get_trends") =>
          LET S == InTrendWindow(response.args[1])
              trend == response.ret.value.trend
          IN  Cardinality(S) >= 2 =>
                 /\ trend = "improving" <=> 20 * ListSlopeNum(S) > ListSlopeDen(S)
                 /\ trend = "declining" <=> 20 * ListSlopeNum(S) < 0 - ListSlopeDen(S)
                 /\ trend \in {"improving", "declining", "stable"}

\* get_trends has reported a slope strictly between 0.05 and 0.1 as
\* 'improving', and get_trend_direction calls the reported slope 'stable'
C21_Witness ==
    /\ Returned("get_trends")
    /\ LET S == InTrendWindow(response.args[1])
       IN  /\ 20 * ListSlopeNum(S) > ListSlopeDen(S)
           /\ 10 * ListSlopeNum(S) < ListSlopeDen(S)
    /\ response.ret.value.trend = "improving"
    /\ response.ret.value.slope > 500
    /\ response.ret.value.slope < 1000
    /\ get_trend_direction(response.ret.value.slope).direction = "stable"

\* C27: with two or more entries in the window, get_trends answers
\* 'improving' when the slope of mood value against chronological position
\* (oldest first) is above 0.05 and 'declining' when it is below -0.05.
C27_TrendFollowsTime ==
    Returned("get_trends") =>
       LET S == InTrendWindow(response.args[1])
           trend == response.ret.value.trend
       IN  Cardinality(S) >= 2 =>
              /\ 20 * ChronologicalSlopeNum(S) > ChronologicalSlopeDen(S)
                    => trend = "improving"
              /\ 20 * ChronologicalSlopeNum(S) < 0 - ChronologicalSlopeDen(S)
                    => trend = "declining"

-----------------------------------------------------------------------------
(* The mood scale *)

\* The seven labels from worst to best
MoodOrder ==
    <<"very bad", "bad", "slightly bad", "neutral", "slightly well", "well", "very well">>

\* C24: get_value gives the k-th label of the scale the value k, so the
\* labels map strictly increasingly and one-to-one onto 1..7, and gives
\* every other string the value 4.
C24_ScaleIsOrderedBijection ==
    /\ \A j, k \in 1 .. 7 : j < k => get_value(MoodOrder[j]) < get_value(MoodOrder[k])
    /\ {get_value(MoodOrder[k]) : k \in 1 .. 7} = 1 .. 7
    /\ Returned("get_value") =>
          LET mood_str == response.args[1]
          IN  /\ \A k \in 1 .. 7 : mood_str = MoodOrder[k] => response.ret.value = k
              /\ (\A k \in 1 .. 7 : mood_str # MoodOrder[k]) => response.ret.value = 4

\* get_value has answered 4 for a label in another letter case
C24_Witness ==
    /\ Returned("get_value")
    /\ response.args[1] = "Very Well"
    /\ response.ret.value = 4

-----------------------------------------------------------------------------
(* The streak of a list *)

\* C23: calculate_streak returns 0 for the empty list and the length of the
\* list when every entry has a value of 5 or more (and then it does
\* return); whatever it returns lies between 0 and the length of the list.
C23_StreakBounds ==
    response.op = "calculate_streak" =>
       /\ moods = <<>> => response.ret = Ok(0)
       /\ (\A k \in Indices : ScaleValue(k) >= 5) => response.ret = Ok(Len(moods))
       /\ response.ret.raised = "" =>
             (response.ret.value >= 0 /\ response.ret.value <= Len(moods))

\* The streak of three good entries, of more than one label, is 3
C23_Witness ==
    /\ Returned("calculate_streak")
    /\ Len(moods) = 3
    /\ \A k \in Indices : ScaleValue(k) >= 5
    /\ \E j, k \in Indices : moods[j].mood # moods[k].mood
    /\ response.ret.value = 3

-----------------------------------------------------------------------------
(* The inputs of the analytics calls *)

\* The report calls of MoodAnalytics
ReportCalls ==
    {"calculate_streak", "calculate_averages", "get_weekly_patterns",
     "get_monthly_trends_for_year", "get_daily_patterns", "get_hourly_averages",
     "get_daily_patterns_for_date", "get_summary", "monthly_trends"}

\* C22: a report call of MoodAnalytics leaves the list of entries it works
\* on as it was (same entries, same order, same fields and values), and
\* after the trend analysis of a chart the 'data' series it was handed is
\* still the series the chart report produced.
C22_InputsNotMutated ==
    [][/\ response'.op \in ReportCalls => moods' = moods
       /\ (response'.op = "monthly_trends" /\ "error" \notin DOMAIN response'.ret.value) =>
             response'.ret.value.data =
                 get_monthly_trends_for_year(moods, response'.args[1]).value.data]_vars

\* get_daily_patterns_for_date has copied and sorted two entries of the
\* selected date, and the stored entries carry their own three fields only
C22_Witness ==
    /\ Returned("get_daily_patterns_for_date")
    /\ "total_entries" \in DOMAIN response.ret.value
    /\ response.ret.value.total_entries >= 2
    /\ \A k \in Indices : DOMAIN moods[k] = {"mood", "date", "timestamp"}

\* C28: in the monthly_trends answer a month without observations has a
\* null trend_line entry and is no point of the regression: with fewer
\* than two months holding observations the regression is the zero one.
C28_EmptyMonthIsGap ==
    (Returned("monthly_trends") /\ "error" \notin DOMAIN response.ret.value) =>
       LET year == response.args[1]
           Observed == {m \in 1 .. 12 :
                           \E k \in Indices : /\ YearOf(moods[k].date) = year
                                              /\ MonthOf(moods[k].date) = m}
           analysis == response.ret.value.trend_analysis
       IN  /\ \A m \in (1 .. 12) \ Observed : analysis.trend_line[m] = None
           /\ Cardinality(Observed) < 2 => analysis.regression.slope = 0

-----------------------------------------------------------------------------
(* Nulls in the regression *)

\* The least-squares line through the points (i - 1, series[i]) of the
\* indices in P, values in tenths: slope FitSlopeNum / FitSlopeDen and
\* intercept FitInterceptNum / FitInterceptDen
FitCross(series, P) ==
    Cardinality(P) * SumOver([i \in P |-> (i - 1) * series[i][1]], P)
        - SumOver([i \in P |-> i - 1], P) * SumOver([i \in P |-> series[i][1]], P)

FitSpread(P) ==
    Cardinality(P) * SumOver([i \in P |-> (i - 1) * (i - 1)], P)
        - SumOver([i \in P |-> i - 1], P) * SumOver([i \in P |-> i - 1], P)

FitSlopeNum(series, P) == FitCross(series, P)

FitSlopeDen(P) == 10 * FitSpread(P)

FitInterceptNum(series, P) ==
    SumOver([i \in P |-> series[i][1]], P) * FitSpread(P)
        - FitCross(series, P) * SumOver([i \in P |-> i - 1], P)

FitInterceptDen(P) == 10 * Cardinality(P) * FitSpread(P)

\* v, in units of 10^-4, is num/den to 4 decimals
IsRounded4(v, num, den) ==
    LET diff == num * 10000 - v * den
    IN  2 * (IF diff < 0 THEN 0 - diff ELSE diff) <= den

\* C25: calculate_linear_regression fits the points (index, value) of the
\* non-null positions only, each number at its own index in the list:
\* slope and intercept are those of the least-squares line through these
\* points (to 4 decimals), a null appended to the series changes nothing,
\* and a number put in the place of a null is one more fitted point.
C25_NullsAreSkippedInPlace ==
    Returned("calculate_linear_regression") =>
        LET series == response.args
            r == response.ret.value
            P == NonNull(series)
        IN  /\ Cardinality(P) >= 2 =>
                  /\ IsRounded4(r.slope, FitSlopeNum(series, P), FitSlopeDen(P))
                  /\ IsRounded4(r.intercept, FitInterceptNum(series, P),
                                FitInterceptDen(P))
            /\ calculate_linear_regression(Append(series, None)) = r
            /\ \A i \in (1 .. Len(series)) \ P : \A v \in SeriesSlots \ {None} :
                  LET filled == [series EXCEPT ![i] = v]
                  IN  /\ Len(ValidPoints(filled)) = Cardinality(P) + 1
                      /\ \E k \in 1 .. Len(ValidPoints(filled)) :
                            ValidPoints(filled)[k] = [x |-> i - 1, y |-> v]

\* A rising pair behind a leading null and around an inner one: the slope
\* is that of the indices 1 and 3, not of 0 and 1
C25_Witness ==
    /\ Returned("calculate_linear_regression")
    /\ response.args = <<None, Num(10), None, Num(30)>>
    /\ response.ret.value.slope = 10000
    /\ response.ret.value.intercept = 0

-----------------------------------------------------------------------------
(* The weeks of a month *)

\* The first Monday on or after the first day of the month
FirstMondayOf(y, m) ==
    CHOOSE d \in ToOrdinal(y, m, 1) .. (ToOrdinal(y, m, 1) + 6) : Weekday(d) = 0

\* The stored rows dated in week w of the month: the seven days from its
\* w-th Monday, cut at the end of the month
InWeekOfMonth(y, m, w) ==
    {k \in Indices :
        /\ moods[k].date >= FirstMondayOf(y, m) + 7 * (w - 1)
        /\ moods[k].date <= FirstMondayOf(y, m) + 7 * (w - 1) + 6
        /\ moods[k].date <= ToOrdinal(y, m, DaysInMonth(y, m))}

-----------------------------------------------------------------------------
(* The fields of a window of the 4-week comparison *)

\* The weekdays (1..7) of a window that hold a value
FilledSlots(week) == {d \in 1 .. 7 : week.data[d] # None}

\* C30: in every window of the 4-week comparison 'entries_count' is the
\* number of non-null slots of 'data', and 'average' is the mean of these
\* slots to one decimal, null when there is none.
C30_WindowFieldsAgree ==
    Returned("get_four_week_comparison") =>
        \A w \in 1 .. Len(response.ret.value.weeks) :
            LET week == response.ret.value.weeks[w]
                filled == FilledSlots(week)
            IN  /\ week.entries_count = Cardinality(filled)
                /\ IF filled = {} THEN week.average = None
                   ELSE /\ week.average # None
                        /\ IsRounded(week.average[1],
                                     SumOver([d \in filled |-> week.data[d][1]], filled),
                                     Cardinality(filled), 1)

-----------------------------------------------------------------------------
(* The stability score *)

\* C29: for a non-empty set of observations 'mood_stability' lies between
\* 0 and 10, and it is 10 when there is a single observation or all
\* observations have the same mood.
C29_StabilityWithinScale ==
    (Returned("analyze_mood_patterns") /\ response.ret.value.total_entries > 0) =>
        LET S == {k \in Indices : moods[k].date >= ServiceToday - response.args[1]}
            stability == response.ret.value.mood_stability
        IN  /\ stability >= 0
            /\ stability <= 1000
            /\ (\A j, k \in S : ScaleValue(j) = ScaleValue(k)) => stability = 1000

====
